---- MODULE Spec2Model ----
(***************************************************************************)
(* Pagination session of the course-evaluation scraper                     *)
(* (src/Courses-CourseEvaluations/v7.py): scrape_course_evaluation,        *)
(* _scrape_all_pages_fixed, scrape_first_page_with_retry,                  *)
(* _get_pagination_info, _navigate_to_next_page and save_incremental_data, *)
(* run against a browser driver whose answers are the model's inputs;      *)
(* _extract_main_table with _extract_table_headers, _find_header_row_index *)
(* and _is_valid_course_data_row, applied to pages of tables; and          *)
(* scrape_all_courses of the timetable scraper                             *)
(* (src/Courses-Timetable/ttb_scraper_enhanced.py).                        *)
(***************************************************************************)
EXTENDS Integers, Sequences, FiniteSets, TLC

\* ------------------------------------------------------------- bounds
\* Page numbers the driver can report: 1..MaxPageNo.
MaxPageNo == 3
\* Distinct records (rows) the host can serve: 1..NumRecs.
NumRecs == 2
\* Most rows one extracted page holds.
MaxRows == 2
\* Calls of scrape_course_evaluation on one scraper object.
MaxRuns == 2
\* Most records the sink is let to hold in a session against a driver other
\* than the stub (no new page is offered beyond it).
MaxSinkLen == 2
\* The navigation-call counter saturates here.
NavCap == 3
\* Most rows a table has before its records.
MaxLead == 2
\* Most records a table has.
MaxBody == 6
\* Most tables a page of several tables has.
MaxTables == 2
\* Distinct course codes the timetable serves: 1..NumCourses.
NumCourses == 2
\* Most courses a timetable session is let to collect.
MaxCourses == 2

\* ------------------------------------------------------------- constants
\* max_retry_attempts of scrape_first_page_with_retry.
max_retry_attempts == 3
\* self.max_pages of TTBScraperEnhanced.
max_pages == 10

PageNos == 1..MaxPageNo
Records == 1..NumRecs

\* ------------------------------------------------------------- helpers
RECURSIVE SeqsUpTo(_)
SeqsUpTo(n) ==
    IF n = 0 THEN {<<>>}
    ELSE LET shorter == SeqsUpTo(n - 1)
         IN  shorter \cup {Append(s, r) : s \in {t \in shorter : Len(t) = n - 1}, r \in Records}

\* What one extraction of a page can return: a list of validated rows.
PageContents == SeqsUpTo(MaxRows)

IsPrefix(s, t) == Len(s) <= Len(t) /\ SubSeq(t, 1, Len(s)) = s

IsSuffix(s, t) == Len(s) <= Len(t) /\ SubSeq(t, Len(t) - Len(s) + 1, Len(t)) = s

Max(a, b) == IF a >= b THEN a ELSE b

Min(a, b) == IF a <= b THEN a ELSE b

\* sorted(...) of Python on the rows' string forms: insertion into a sorted list.
RECURSIVE InsertSorted(_, _)
InsertSorted(x, s) ==
    IF s = <<>> THEN <<x>>
    ELSE IF x <= Head(s) THEN <<x>> \o s
    ELSE <<Head(s)>> \o InsertSorted(x, Tail(s))

RECURSIVE Sorted(_)
Sorted(s) == IF s = <<>> THEN <<>> ELSE InsertSorted(Head(s), Sorted(Tail(s)))

\* data_hash = hash(str(sorted([str(row) for row in current_page_data]))):
\* the hash of the sorted list of the rows' strings (str and hash taken as
\* injective on the lists that occur).
FingerprintUnsorted(page_data) == page_data

Fingerprint(page_data) == Sorted(page_data)

\* The two lists hold the same rows, each as often.
IsPermutation(s, t) ==
    /\ Len(s) = Len(t)
    /\ \A r \in Records : Cardinality({i \in 1..Len(s) : s[i] = r})
                             = Cardinality({i \in 1..Len(t) : t[i] = r})

\* if data_hash in previous_data_hashes
IsRepeatNever(data_hash, hashes) == FALSE

IsRepeat(data_hash, hashes) == data_hash \in hashes

\* ------------------------------------------------------------- state
VARIABLES
    pc,                   \* position of the session in the code
    run,                  \* calls of scrape_course_evaluation made so far
    drv_mode,             \* which driver the scraper is run against
    drv_page,             \* the page the two-page stub driver is on
    last_reported,        \* last page number reported (non-advancing driver)
    current_page,         \* _scrape_all_pages_fixed: current_page
    total_pages,          \* _scrape_all_pages_fixed: total_pages
    previous_data_hashes, \* _scrape_all_pages_fixed: previous_data_hashes
    seen_pages,           \* the pages whose hash was added to previous_data_hashes
    all_data,             \* _scrape_all_pages_fixed: all_data
    current_page_data,    \* _scrape_all_pages_fixed: current_page_data
    table_element,        \* _extract_main_table: a table was selected
    retry,                \* scrape_first_page_with_retry: retry
    pre_nav_has_next,     \* _scrape_all_pages_fixed: pre_nav_pagination['has_next']
    evaluation_data,      \* self.combined_data['evaluation_data']
    pi_total_pages,       \* self.combined_data['page_info']['total_pages']
    pi_total_records,     \* self.combined_data['page_info']['total_records']
    committed_pages,      \* the current_page of the calls of save_incremental_data that added records
    json_file,            \* records in <base_filename>.json
    csv_file,             \* records in <base_filename>.csv
    completed,            \* records of the calls of save_incremental_data that returned
    result,               \* what the last call of scrape_course_evaluation returned
    end_reason,           \* which exit of the page loop was taken
    nav_calls,            \* calls of _navigate_to_next_page in this run (non-advancing driver)
    stalls,               \* stalls met in this run (repeat page, page number not increased)
    extracted_page,       \* page number of the last page extracted in this run (0: none)
    single_rows           \* records of the table of the single-page dataset

\* scrape_all_courses of the timetable scraper
VARIABLES
    tt_pc,                \* position of the call in the code
    page_count,           \* page_count
    all_courses,          \* all_courses (course codes)
    errors,               \* errors
    file_handle,          \* file_handle: none, open or closed
    courses_bound,        \* the local courses has been assigned
    courses,              \* courses
    tt_result,            \* what the call gave its caller
    tt_raised,            \* an exception was raised in a step of this call
    csv_rows,             \* course codes of the rows written to the incremental CSV
    next_page_calls       \* calls of check_for_next_page made by this call

\* _extract_main_table
VARIABLES
    ex_pc,                \* position of the call in the code
    tables,               \* tables: the tables of the page
    table_index,          \* the table the loop over tables is at
    selected_table,       \* table_element, as the table's position (0: None)
    headers,              \* headers
    header_row_index,     \* header_row_index
    row_index,            \* the row the loop over rows is at
    table_data,           \* table_data
    raised_tables         \* tables whose inspection raised an exception

\* one row of the selected table bound to the headers and validated
VARIABLES
    rv_pc,                \* position in the body of the loop over the rows
    row_cells,            \* cells: the texts of the row's td cells
    row_schema,           \* headers before the row
    row_headers,          \* headers after the row
    row_record,           \* row_data
    row_accepted          \* what _is_valid_course_data_row returned

\* extract_from_table of the timetable scraper
VARIABLES
    tb_pc,                \* position of the call in the code
    course_rows,          \* course_rows: the tr elements of the page
    tb_index,             \* the row the loop is at (1 for Python's i = 0)
    tb_courses            \* courses (course codes)

v7_vars == <<pc, run, drv_mode, drv_page, last_reported, current_page, total_pages,
          previous_data_hashes, seen_pages, all_data, current_page_data, table_element,
          retry, pre_nav_has_next, evaluation_data, pi_total_pages, pi_total_records,
          committed_pages, json_file, csv_file, completed, result, end_reason, nav_calls, stalls,
          extracted_page, single_rows>>

tt_vars == <<tt_pc, page_count, all_courses, errors, file_handle, courses_bound, courses,
             tt_result, tt_raised, csv_rows, next_page_calls>>

ex_vars == <<ex_pc, tables, table_index, selected_table, headers, header_row_index,
             row_index, table_data, raised_tables>>

row_vars == <<rv_pc, row_cells, row_schema, row_headers, row_record, row_accepted>>

tb_vars == <<tb_pc, course_rows, tb_index, tb_courses>>

vars == <<v7_vars, tt_vars, ex_vars, row_vars, tb_vars>>

locals == <<current_page, total_pages, previous_data_hashes, seen_pages, all_data,
            current_page_data, table_element, retry, pre_nav_has_next>>

sink == <<evaluation_data, pi_total_pages, pi_total_records, committed_pages>>

files == <<json_file, csv_file, completed>>

driver == <<drv_mode, drv_page, last_reported>>

DriverModes == {"free", "stub", "stuck", "single"}

\* The dataset of the stub driver: page 1 holds record 1, page 2 record 2.
StubData == << <<1>>, <<2>> >>

\* ------------------------------------------------------------- page content
\* The names of the generated columns, f"Column_{n}".
ColumnNames ==
    <<"Column_1", "Column_2", "Column_3", "Column_4", "Column_5", "Column_6", "Column_7",
      "Column_8", "Column_9", "Column_10", "Column_11", "Column_12", "Column_13",
      "Column_14", "Column_15", "Column_16", "Column_17", "Column_18", "Column_19",
      "Column_20">>

ColumnName(n) == ColumnNames[n]

\* h.startswith('Column_')
StartsWithColumn(h) == \E n \in 1..Len(ColumnNames) : h = ColumnNames[n]

\* A row (tr) is its header cells and its data cells, each cell its stripped
\* text. The rows the model's tables are made of:
\* the header row of five names, in th cells;
ThFive == [th |-> <<"Dept", "Course", "Name", "Term", "Rating">>, td |-> <<>>]

\* a header row of two names;
ThTwo == [th |-> <<"Dept", "Course">>, td |-> <<>>]

\* a row of th cells without text;
ThBlank == [th |-> <<"", "", "", "", "">>, td |-> <<>>]

\* the five names in td cells;
TdFive == [th |-> <<>>, td |-> <<"Dept", "Course", "Name", "Term", "Rating">>]

\* a record of five cells;
Data5 == [th |-> <<>>, td |-> <<"CSC", "CSC108", "Smith", "Fall", "4.5">>]

\* a record with one cell more;
Data6 == [th |-> <<>>, td |-> <<"CSC", "CSC108", "Smith", "Fall", "4.5", "4.5">>]

\* a record of three cells;
Data3 == [th |-> <<>>, td |-> <<"CSC108", "Smith", "Fall">>]

\* a record of four cells, none with a content marker.
Data4 == [th |-> <<>>, td |-> <<"CSC", "CSC108", "Smith", "4.5">>]

\* words of the header keywords in td cells;
TdKeywords == [th |-> <<>>, td |-> <<"Name", "Section", "Size", "Score", "Class">>]

LeadKinds == {ThFive, ThTwo, ThBlank, TdFive}

BodyPatterns == {<<Data5>>, <<Data5, Data6>>, <<Data3>>, <<Data4>>}

RECURSIVE LeadsUpTo(_)
LeadsUpTo(n) ==
    IF n = 0 THEN {<<>>}
    ELSE LET shorter == LeadsUpTo(n - 1)
         IN  shorter \cup {Append(s, r) : s \in {t \in shorter : Len(t) = n - 1}, r \in LeadKinds}

\* n rows that repeat the pattern.
Body(pattern, n) == [i \in 1..n |-> pattern[((i - 1) % Len(pattern)) + 1]]

\* A table is the list of its rows, table.find_elements(By.TAG_NAME, "tr"):
\* some leading rows and then the records.
TableOf(lead, pattern, n) == lead \o Body(pattern, n)

Tables == {TableOf(l, p, n) : l \in LeadsUpTo(MaxLead), p \in BodyPatterns, n \in 1..MaxBody}

\* The tables of the pages that hold several tables: a wide table with its
\* header, a table of three columns, a table of few rows, a table without a
\* content marker, and a table whose first five rows have no cells.
WideTable == TableOf(<<ThFive>>, <<Data5>>, MaxBody)

NarrowTable == TableOf(<<ThTwo>>, <<Data3>>, MaxBody)

ShortTable == TableOf(<<ThFive>>, <<Data5>>, 1)

NoMarkerTable == TableOf(<<>>, <<Data4>>, MaxBody)

SpacerTable ==
    TableOf([i \in 1..5 |-> [th |-> <<>>, td |-> <<>>]], <<Data5>>, MaxBody)

Catalogue == {WideTable, NarrowTable, ShortTable, NoMarkerTable, SpacerTable}

RECURSIVE CataloguePages(_)
CataloguePages(n) ==
    IF n = 0 THEN {<<>>}
    ELSE LET shorter == CataloguePages(n - 1)
         IN  shorter \cup {Append(s, t) : s \in {u \in shorter : Len(u) = n - 1}, t \in Catalogue}

\* tables = self.driver.find_elements(By.TAG_NAME, "table"): the pages given
\* to _extract_main_table.
Pages == {<<t>> : t \in Tables} \cup CataloguePages(MaxTables)

\* The single-page dataset: the header row of five names and k records.
HeaderTable(k) == TableOf(<<ThFive>>, <<Data5>>, k)

SetMin(S) == CHOOSE x \in S : \A y \in S : x <= y

\* ------------------------------------------------------------- texts
\* any(pattern in table_text for pattern in ['AFR', 'ANA', 'ANT', 'Fall',
\* 'Winter', 'Instructor', 'Course', 'Dept']), on a cell's text.
HasContentMarker(text) == text \in {"Dept", "Course", "Fall"}

\* any(pattern in text.upper() for pattern in ['AFR', ..., 'CSC', ...]) and
\* any(char.isdigit() for char in text)
LooksLikeCourseData(text) == text \in {"CSC108"}

\* any(keyword in text.lower() for keyword in header_keywords)
HasHeaderKeyword(text) ==
    text \in {"Dept", "Course", "Name", "Term", "Rating", "Section", "Size", "Score", "Class"}

\* _looks_like_data: a course code, a number, or a term name.
LooksLikeData(text) == text \in {"CSC108", "4.5", "Fall"}

\* text and not text.isdigit() and len(text) > 1 and not self._looks_like_data(text)
IsOtherName(text) == text # "" /\ ~LooksLikeData(text)

\* any(keyword in row_text for keyword in ['dept', 'course', 'instructor', 'term'])
HasRowKeyword(text) == text \in {"Dept", "Course", "Term"}

\* 'dept' in key_lower or 'department' in key_lower
IsDeptKey(key) == key = "Dept"

\* 'course' in key_lower or 'subject' in key_lower
IsCourseKey(key) == key = "Course"

\* 'name' in key_lower or 'instructor' in key_lower
IsNameKey(key) == key = "Name"

\* value.lower() in header_indicators
IsHeaderIndicator(value) == value \in {"Dept", "Course", "Term", "Rating"}

\* any(indicator in value.lower() for indicator in header_indicators)
HasHeaderIndicator(value) == value \in {"Dept", "Course", "Term", "Rating"}

\* re.match(r'^[A-Z]{2,5}$', dept)
IsDeptCode(value) == value \in {"CSC"}

\* re.match(r'^[A-Z]{2,5}\d+[A-Z]?\d*$', course)
IsCourseCode(value) == value \in {"CSC108"}

\* re.match(r"^[A-Za-z\s'\-\.]+$", name_field) and len(name_field) > 2
IsPersonName(value) ==
    value \in {"Dept", "Course", "Name", "Term", "Rating", "CSC", "Smith", "Fall",
               "Section", "Size", "Score", "Class"}

\* re.match(r'^\d+\.?\d*$', value) or value in ['Fall', 'Winter', 'Summer', 'Spring']
IsNumericOrTerm(value) == value \in {"4.5", "Fall"}

\* ------------------------------------------------------------- _extract_table_headers
\* candidate_headers of a row's th cells: the text, or Column_N for no text.
ThNames(th) == [j \in 1..Len(th) |-> IF th[j] # "" THEN th[j] ELSE ColumnName(j)]

\* Strategy 1: the first of the first 3 rows that has th cells and whose
\* candidate_headers has an entry of length > 0.
Strategy1Headers(rows) ==
    LET names(r) == ThNames(rows[r].th)
        found == {r \in 1..Min(3, Len(rows)) :
                     /\ rows[r].th # <<>>
                     /\ names(r) # <<>>
                     /\ \E j \in 1..Len(names(r)) : names(r)[j] # ""}
    IN  IF found = {} THEN <<>> ELSE names(SetMin(found))

\* The loop over the td cells of a row in strategy 2, with its break.
RECURSIVE ScanTdCells(_, _, _)
ScanTdCells(cells, candidate_headers, valid_header_count) ==
    IF cells = <<>>
    THEN [candidate_headers |-> candidate_headers, valid_header_count |-> valid_header_count]
    ELSE LET text == Head(cells)
         IN  IF LooksLikeCourseData(text)
             THEN [candidate_headers |-> candidate_headers,
                   valid_header_count |-> valid_header_count]
             ELSE IF HasHeaderKeyword(text)
             THEN ScanTdCells(Tail(cells), Append(candidate_headers, text),
                              valid_header_count + 1)
             ELSE IF IsOtherName(text)
             THEN ScanTdCells(Tail(cells), Append(candidate_headers, text),
                              valid_header_count)
             ELSE ScanTdCells(Tail(cells),
                              Append(candidate_headers,
                                     ColumnName(Len(candidate_headers) + 1)),
                              valid_header_count)

\* Strategy 2: the first of the first 3 rows with td cells of which at least
\* 2 hold a keyword and that give at least 5 names; else headers as they are.
Strategy2Headers(rows, hdrs) ==
    LET scan(r) == ScanTdCells(rows[r].td, <<>>, 0)
        found == {r \in 1..Min(3, Len(rows)) :
                     /\ rows[r].td # <<>>
                     /\ scan(r).valid_header_count >= 2
                     /\ Len(scan(r).candidate_headers) >= 5}
    IN  IF found = {} THEN hdrs ELSE scan(SetMin(found)).candidate_headers

\* Strategy 3: Column_1..Column_max_cols, max_cols the largest number of td
\* cells in the first 5 rows.
Strategy3Headers(rows) ==
    LET first == 1..Min(5, Len(rows))
        max_cols == IF first = {} THEN 0
                    ELSE CHOOSE m \in {Len(rows[r].td) : r \in first} :
                             \A r \in first : Len(rows[r].td) <= m
    IN  [i \in 1..max_cols |-> ColumnName(i)]

\* except Exception (an element of the table raised while the strategies
\* ran): Column_1..Column_max(max_cols, 15), and Column_1..Column_20 when the
\* count of the cells raises as well.
FallbackHeaders(rows) ==
    {[i \in 1..Max(Len(Strategy3Headers(rows)), 15) |-> ColumnName(i)],
     [i \in 1..20 |-> ColumnName(i)]}

\* if not headers or all(not h or h.startswith('Column_') for h in headers)
NeedsStrategy2(hdrs) ==
    hdrs = <<>> \/ \A j \in 1..Len(hdrs) : hdrs[j] = "" \/ StartsWithColumn(hdrs[j])

\* if not headers or len([h for h in headers if h and not h.startswith('Column_')]) < 3
NeedsStrategy3(hdrs) ==
    \/ hdrs = <<>>
    \/ Cardinality({j \in 1..Len(hdrs) :
                       hdrs[j] # "" /\ ~StartsWithColumn(hdrs[j])}) < 3

ExtractTableHeaders(rows) ==
    LET h1 == Strategy1Headers(rows)
        h2 == IF NeedsStrategy2(h1) THEN Strategy2Headers(rows, h1) ELSE h1
    IN  IF NeedsStrategy3(h2) THEN Strategy3Headers(rows) ELSE h2

\* The row whose cells gave the headers returned by _extract_table_headers:
\* the row taken by strategy 1 or by strategy 2; 0 when strategy 3 generated
\* them.
HeaderSourceRow(rows) ==
    LET first == 1..Min(3, Len(rows))
        by_th == {r \in first : rows[r].th # <<>>}
        scan(r) == ScanTdCells(rows[r].td, <<>>, 0)
        by_td == {r \in first :
                     /\ rows[r].td # <<>>
                     /\ scan(r).valid_header_count >= 2
                     /\ Len(scan(r).candidate_headers) >= 5}
        h1 == Strategy1Headers(rows)
        h2 == IF NeedsStrategy2(h1) THEN Strategy2Headers(rows, h1) ELSE h1
    IN  IF NeedsStrategy3(h2) THEN 0
        ELSE IF NeedsStrategy2(h1) /\ by_td # {} THEN SetMin(by_td)
        ELSE SetMin(by_th)

\* _find_header_row_index (0-based): the first of the first 3 rows with th
\* cells, else the first with td cells and a keyword in its text, else 0.
FindHeaderRowIndex(rows) ==
    LET first == 1..Min(3, Len(rows))
        with_th == {i \in first : rows[i].th # <<>>}
        with_keyword == {i \in first :
                            /\ rows[i].td # <<>>
                            /\ \E j \in 1..Len(rows[i].td) : HasRowKeyword(rows[i].td[j])}
    IN  IF with_th # {} THEN SetMin(with_th) - 1
        ELSE IF with_keyword # {} THEN SetMin(with_keyword) - 1
        ELSE 0

\* ------------------------------------------------------------- row_data
\* A dict is the list of its (key, value) items in insertion order.
\* row_data[key] = value
DictSet(row_data, key, value) ==
    IF \E i \in 1..Len(row_data) : row_data[i][1] = key
    THEN [i \in 1..Len(row_data) |->
             IF row_data[i][1] = key THEN <<key, value>> ELSE row_data[i]]
    ELSE Append(row_data, <<key, value>>)

\* headers.extend(additional_headers) when the row has more cells
PadHeadersNot(hdrs, cell_count) == hdrs

PadHeaders(hdrs, cell_count) == hdrs \o [j \in 1..(Max(cell_count, Len(hdrs)) - Len(hdrs)) |-> ColumnName(Len(hdrs) + j)]

\* for j, cell in enumerate(cells): row_data[header] = cell_text
RECURSIVE BindCells(_, _, _, _)
BindCells(cells, hdrs, j, row_data) ==
    IF j > Len(cells) THEN row_data
    ELSE BindCells(cells, hdrs, j + 1,
                   DictSet(row_data,
                           IF j <= Len(hdrs) THEN hdrs[j] ELSE ColumnName(j),
                           cells[j]))

\* for j in range(len(cells), len(headers)): row_data[header] = ""
RECURSIVE FillMissing(_, _, _)
FillMissing(hdrs, j, row_data) ==
    IF j > Len(hdrs) THEN row_data
    ELSE FillMissing(hdrs, j + 1, DictSet(row_data, hdrs[j], ""))

BindRow(cells, hdrs) == FillMissing(hdrs, Len(cells) + 1, BindCells(cells, hdrs, 1, <<>>))

\* The value of the last item of row_data whose key is of the kind, "" if none:
\* the for loop over row_data.items() with its if / elif / elif.
RECURSIVE FieldOf(_, _, _)
FieldOf(row_data, kind, value) ==
    IF row_data = <<>> THEN value
    ELSE LET key == Head(row_data)[1]
             key_kind == IF IsDeptKey(key) THEN "dept"
                         ELSE IF IsCourseKey(key) THEN "course"
                         ELSE IF IsNameKey(key) THEN "name"
                         ELSE "other"
         IN  FieldOf(Tail(row_data), kind,
                     IF key_kind = kind THEN Head(row_data)[2] ELSE value)

\* dept, course, name_field
KeyFields(row_data) ==
    {FieldOf(row_data, "dept", ""), FieldOf(row_data, "course", ""),
     FieldOf(row_data, "name", "")}

\* valid_indicators
ValidIndicators(row_data) ==
    LET numeric_count ==
            Cardinality({i \in 1..Len(row_data) : IsNumericOrTerm(row_data[i][2])})
    IN  (IF IsDeptCode(FieldOf(row_data, "dept", "")) THEN 1 ELSE 0)
        + (IF IsCourseCode(FieldOf(row_data, "course", "")) THEN 2 ELSE 0)
        + (IF IsPersonName(FieldOf(row_data, "name", "")) THEN 1 ELSE 0)
        + (IF numeric_count >= 3 THEN 1 ELSE 0)

\* if valid_indicators >= 2
ReachesThresholdNever(valid_indicators) == FALSE

ReachesThreshold(valid_indicators) == valid_indicators >= 2

\* _is_valid_course_data_row
IsValidCourseDataRow(row_data) ==
    LET items == 1..Len(row_data)
        non_empty_count == Cardinality({i \in items : row_data[i][2] # ""})
        header_like_count == Cardinality({i \in items : HasHeaderIndicator(row_data[i][2])})
    IN  IF \A i \in items : row_data[i][2] = "" THEN FALSE
        ELSE IF \E value \in KeyFields(row_data) : IsHeaderIndicator(value) THEN FALSE
        ELSE IF ReachesThreshold(ValidIndicators(row_data)) THEN TRUE
        ELSE non_empty_count >= 5 /\ 10 * header_like_count < 3 * non_empty_count

\* ------------------------------------------------------------- _extract_main_table
\* len(rows) > 5
HasSubstantialRows(rows) == Len(rows) > 5

\* the table's text holds a content marker
TableHasMarker(rows) ==
    \E i \in 1..Len(rows) :
        \/ \E j \in 1..Len(rows[i].th) : HasContentMarker(rows[i].th[j])
        \/ \E j \in 1..Len(rows[i].td) : HasContentMarker(rows[i].td[j])

\* if headers and len(headers) > 3
MeaningfulHeadersAny(hdrs) == TRUE

MeaningfulHeaders(hdrs) == hdrs # <<>> /\ Len(hdrs) > 3

\* One pass of the loop over the rows after the header row: the headers and
\* table_data after the row.
ProcessRow(row, hdrs, data) ==
    LET cells == row.td
        padded == PadHeaders(hdrs, Len(cells))
        row_data == BindRow(cells, padded)
    IN  IF Len(cells) > 0
        THEN [hdrs |-> padded,
              data |-> IF IsValidCourseDataRow(row_data)
                             THEN Append(data, row_data) ELSE data]
        ELSE [hdrs |-> hdrs, data |-> data]

RECURSIVE ProcessRows(_, _, _, _)
ProcessRows(rows, i, hdrs, data) ==
    IF i > Len(rows) THEN data
    ELSE LET after == ProcessRow(rows[i], hdrs, data)
         IN  ProcessRows(rows, i + 1, after.hdrs, after.data)

\* table_element: the first table, in document order, that passes the checks
\* of lines 599-613 (0: None).
SelectTable(tabs) ==
    LET passing == {i \in 1..Len(tabs) :
                       /\ HasSubstantialRows(tabs[i])
                       /\ TableHasMarker(tabs[i])
                       /\ MeaningfulHeaders(ExtractTableHeaders(tabs[i]))}
    IN  IF passing = {} THEN 0 ELSE SetMin(passing)

\* _extract_main_table on a page whose elements raise nothing.
ExtractMainTable(tabs) ==
    LET selected == SelectTable(tabs)
    IN  IF selected = 0 THEN <<>>
        ELSE LET rows == tabs[selected]
                 hdrs == ExtractTableHeaders(rows)
             IN  IF hdrs = <<>> THEN <<>>
                 ELSE ProcessRows(rows, FindHeaderRowIndex(rows) + 2, hdrs, <<>>)

\* _wait_for_data_table_to_load on a page that does not change: a table with
\* more than expected_min_rows (5) rows and a content marker is there.
WaitForDataTableToLoad(tabs) ==
    \E i \in 1..Len(tabs) : Len(tabs[i]) > 5 /\ TableHasMarker(tabs[i])

\* ------------------------------------------------------------- driver
\* What the page shows to one call of _get_pagination_info: the page input's
\* value, the pageMax / " / N" total, and whether the '>' button is found
\* enabled.
RawReadings ==
    CASE drv_mode = "stub" ->
            {[cur |-> drv_page, tot |-> Len(StubData), next |-> drv_page < Len(StubData)]}
      [] drv_mode = "single" ->
            {[cur |-> 1, tot |-> 1, next |-> FALSE]}
      [] drv_mode = "stuck" ->
            {r \in [cur : PageNos, tot : PageNos, next : {TRUE}] : r.cur <= last_reported}
      [] OTHER -> [cur : PageNos, tot : PageNos, next : BOOLEAN]

\* _get_pagination_info: has_next is overridden to False when
\* current_page >= total_pages.
GetPaginationInfo(raw) ==
    [current_page |-> raw.cur,
     total_pages  |-> raw.tot,
     has_next     |-> raw.next /\ ~(raw.cur >= raw.tot)]

\* The driver after a reading of the pagination controls.
DriverRead(raw) ==
    /\ last_reported' = IF drv_mode = "stuck" THEN raw.cur ELSE last_reported
    /\ UNCHANGED <<drv_mode, drv_page>>

\* What _wait_for_data_table_to_load and _extract_main_table compute from the
\* page of the single-page dataset with k data rows: ready, whether a table was
\* selected, and the validated rows, record i being the i-th row returned.
SinglePageExtraction ==
    [k \in 1..MaxBody |->
        LET single_page == <<HeaderTable(k)>>
        IN  [ready |-> WaitForDataTableToLoad(single_page),
             table |-> SelectTable(single_page) # 0,
             data  |-> [i \in 1..Len(ExtractMainTable(single_page)) |-> i]]]

\* What one run of _wait_for_data_table_to_load and _extract_main_table can
\* give: ready, whether a table was selected, and the validated rows. The stub
\* serves its dataset; the single-page dataset gives what the functions
\* compute from its table; the other drivers serve any page that repeats an
\* earlier one or that the sink still has room for.
Extractions ==
    LET fits(d) == \/ \E page \in seen_pages : IsPermutation(page, d)
                   \/ Len(evaluation_data) + Len(d) <= MaxSinkLen
    IN  IF drv_mode = "stub"
        THEN {[ready |-> TRUE, table |-> TRUE, data |-> StubData[p]] :
                  p \in {q \in {drv_page} : q <= Len(StubData)}}
        ELSE IF drv_mode = "single"
        THEN {SinglePageExtraction[single_rows]}
        ELSE {e \in [ready : BOOLEAN, table : BOOLEAN, data : PageContents] :
                  /\ fits(e.data)
                  /\ (~e.table => e.data = <<>>)}

\* ------------------------------------------------------------- initial state
InitLocals ==
    /\ current_page = 1
    /\ total_pages = 1
    /\ previous_data_hashes = {}
    /\ seen_pages = {}
    /\ all_data = <<>>
    /\ current_page_data = <<>>
    /\ table_element = FALSE
    /\ retry = 0
    /\ pre_nav_has_next = FALSE

ResetLocals ==
    /\ current_page' = 1
    /\ total_pages' = 1
    /\ previous_data_hashes' = {}
    /\ seen_pages' = {}
    /\ all_data' = <<>>
    /\ current_page_data' = <<>>
    /\ table_element' = FALSE
    /\ retry' = 0
    /\ pre_nav_has_next' = FALSE

\* __init__ of TTBScraperEnhanced; scrape_all_courses not yet called.
TTBInit ==
    /\ tt_pc = "idle"
    /\ page_count = 0
    /\ all_courses = <<>>
    /\ errors = <<>>
    /\ file_handle = "none"
    /\ courses_bound = FALSE
    /\ courses = <<>>
    /\ tt_result = "not_called"
    /\ tt_raised = FALSE
    /\ csv_rows = <<>>
    /\ next_page_calls = 0

\* The locals of _extract_main_table at its start.
ExLocalsInit ==
    /\ table_index = 1
    /\ selected_table = 0
    /\ headers = <<>>
    /\ header_row_index = 0
    /\ row_index = 0
    /\ table_data = <<>>
    /\ raised_tables = {}

\* No call of _extract_main_table is followed step by step.
ExParked ==
    /\ ex_pc = "parked"
    /\ tables = <<>>
    /\ ExLocalsInit

\* No row is followed through its binding and validation.
RowParked ==
    /\ rv_pc = "parked"
    /\ row_cells = <<>>
    /\ row_schema = <<>>
    /\ row_headers = <<>>
    /\ row_record = <<>>
    /\ row_accepted = FALSE

\* No call of extract_from_table is followed.
TblParked ==
    /\ tb_pc = "parked"
    /\ course_rows = <<>>
    /\ tb_index = 1
    /\ tb_courses = <<>>

\* __init__: empty combined_data; nothing written yet; the driver is one of
\* modes.
ScraperInit(modes) ==
    /\ pc = "idle"
    /\ run = 0
    /\ drv_mode \in modes
    /\ single_rows \in (IF drv_mode = "single" THEN 1..MaxBody ELSE {0})
    /\ drv_page = 1
    /\ last_reported = MaxPageNo
    /\ InitLocals
    /\ evaluation_data = <<>>
    /\ pi_total_pages = 0
    /\ pi_total_records = 0
    /\ committed_pages = {}
    /\ json_file = <<>>
    /\ csv_file = <<>>
    /\ completed = <<>>
    /\ result = "not_called"
    /\ end_reason = "none"
    /\ nav_calls = 0
    /\ stalls = 0
    /\ extracted_page = 0

Init == ScraperInit(DriverModes) /\ TTBInit /\ ExParked /\ RowParked /\ TblParked

\* The timetable scraper is followed; the evaluation scraper is not called.
TTInit == ScraperInit({"stub"}) /\ TTBInit /\ ExParked /\ RowParked /\ TblParked

\* _extract_main_table is called on one of the pages.
ExInit ==
    /\ ScraperInit({"stub"})
    /\ TTBInit
    /\ ex_pc = "locate"
    /\ tables \in Pages
    /\ ExLocalsInit
    /\ RowParked
    /\ TblParked


\* ------------------------------------------------------------- exits
\* except Exception as e: ... return None
RaiseToCaller ==
    /\ pc' = "idle"
    /\ result' = "None"
    /\ end_reason' = "none"
    /\ nav_calls' = 0
    /\ stalls' = 0
    /\ extracted_page' = 0
    /\ ResetLocals

\* A break out of the while loop of _scrape_all_pages_fixed.
Break(reason) ==
    /\ pc' = "loop_exit"
    /\ end_reason' = reason

\* ------------------------------------------------------------- scrape_course_evaluation
\* Calls made on one scraper object: the rerun scenario calls it again on the
\* stub dataset; against the other drivers the object serves one session, as
\* in __main__ (one scraper per URL).
RunsAllowed == IF drv_mode = "stub" THEN MaxRuns ELSE 1

\* scrape_course_evaluation(url) is called on the scraper.
StartRun ==
    /\ pc = "idle"
    /\ run < RunsAllowed
    /\ run' = run + 1
    /\ pc' = "load"
    /\ result' = "pending"
    /\ end_reason' = "none"
    /\ nav_calls' = 0
    /\ stalls' = 0
    /\ extracted_page' = 0
    /\ UNCHANGED <<driver, locals, sink, files>>
    /\ UNCHANGED <<single_rows, tt_vars, ex_vars, row_vars, tb_vars>>

\* driver.get(url), wait for a table, _set_max_page_size,
\* _wait_for_data_table_to_load: the page is loaded at its first page.
LoadPage ==
    /\ pc = "load"
    /\ pc' = "init"
    /\ drv_page' = 1
    /\ last_reported' = MaxPageNo
    /\ UNCHANGED <<run, drv_mode, locals, sink, files, result, end_reason, nav_calls, stalls, extracted_page>>
    /\ UNCHANGED <<single_rows, tt_vars, ex_vars, row_vars, tb_vars>>

\* driver.get or wait.until raises (no table within wait_time): return None.
LoadRaises ==
    /\ pc = "load"
    /\ drv_mode # "stub"
    /\ RaiseToCaller
    /\ UNCHANGED <<run, driver, sink, files>>
    /\ UNCHANGED <<single_rows, tt_vars, ex_vars, row_vars, tb_vars>>

\* ------------------------------------------------------------- _scrape_all_pages_fixed
\* all_data = [], the initial pagination reading, previous_data_hashes = set().
ScrapeAllPagesInit ==
    /\ pc = "init"
    /\ \E raw \in RawReadings :
          LET info == GetPaginationInfo(raw)
          IN  /\ total_pages' = info.total_pages
              /\ current_page' = info.current_page
              /\ DriverRead(raw)
    /\ all_data' = <<>>
    /\ previous_data_hashes' = {}
    /\ seen_pages' = {}
    /\ pc' = "loop_top"
    /\ UNCHANGED <<run, current_page_data, table_element, retry, pre_nav_has_next, sink,
                   files, result, end_reason, nav_calls, stalls, extracted_page>>
    /\ UNCHANGED <<single_rows, tt_vars, ex_vars, row_vars, tb_vars>>

\* while current_page <= total_pages
LoopTest ==
    /\ pc = "loop_top"
    /\ IF current_page <= total_pages
       THEN pc' = "read_pagination" /\ UNCHANGED end_reason
       ELSE Break("loop_condition")
    /\ UNCHANGED <<run, driver, locals, sink, files, result, nav_calls, stalls, extracted_page>>
    /\ UNCHANGED <<single_rows, tt_vars, ex_vars, row_vars, tb_vars>>

\* current_pagination = self._get_pagination_info(); current_page and
\* total_pages take the reported values.
ReadPagination ==
    /\ pc = "read_pagination"
    /\ \E raw \in RawReadings :
          LET info == GetPaginationInfo(raw)
          IN  /\ current_page' = info.current_page
              /\ total_pages' = info.total_pages
              /\ pc' = IF info.current_page = 1 THEN "first_page" ELSE "extract"
              /\ DriverRead(raw)
    /\ retry' = 0
    /\ UNCHANGED <<run, previous_data_hashes, seen_pages,
                   all_data, current_page_data, table_element,
                   pre_nav_has_next, sink, files, result, end_reason, nav_calls, stalls,
                   extracted_page>>
    /\ UNCHANGED <<single_rows, tt_vars, ex_vars, row_vars, tb_vars>>

\* if retry < max_retry_attempts - 1: driver.refresh(); continue
MayRetryNever(r) == FALSE

MayRetry(r) == r < max_retry_attempts - 1

\* One pass of the for loop of scrape_first_page_with_retry.
FirstPageAttempt ==
    /\ pc = "first_page"
    /\ \E e \in Extractions :
          IF ~e.ready /\ MayRetry(retry)
          THEN \* driver.refresh(); continue
               /\ retry' = retry + 1
               /\ UNCHANGED <<pc, current_page_data, table_element, extracted_page>>
          ELSE IF e.data # <<>>
          THEN \* return first_page_data
               /\ current_page_data' = e.data
               /\ table_element' = TRUE
               /\ retry' = 0
               /\ extracted_page' = current_page
               /\ pc' = "commit"
          ELSE IF MayRetry(retry)
          THEN \* no data: driver.refresh(); continue
               /\ retry' = retry + 1
               /\ UNCHANGED <<pc, current_page_data, table_element, extracted_page>>
          ELSE \* all attempts used: return []
               /\ current_page_data' = <<>>
               /\ table_element' = e.table
               /\ retry' = 0
               /\ extracted_page' = current_page
               /\ pc' = "commit"
    /\ UNCHANGED <<run, driver, current_page, total_pages, previous_data_hashes, seen_pages,
                   all_data,
                   pre_nav_has_next, sink, files, result, end_reason, nav_calls, stalls>>
    /\ UNCHANGED <<single_rows, tt_vars, ex_vars, row_vars, tb_vars>>

\* driver.refresh() raises inside the except handler of an attempt.
FirstPageRefreshRaises ==
    /\ pc = "first_page"
    /\ MayRetry(retry)
    /\ drv_mode # "stub"
    /\ RaiseToCaller
    /\ UNCHANGED <<run, driver, sink, files>>
    /\ UNCHANGED <<single_rows, tt_vars, ex_vars, row_vars, tb_vars>>

\* current_page_data = self._extract_main_table() on a page other than 1.
ExtractPage ==
    /\ pc = "extract"
    /\ \E e \in Extractions :
          /\ current_page_data' = e.data
          /\ table_element' = e.table
    /\ extracted_page' = current_page
    /\ pc' = "commit"
    /\ UNCHANGED <<run, driver, current_page, total_pages, previous_data_hashes, seen_pages,
                   all_data,
                   retry, pre_nav_has_next, sink, files, result, end_reason, nav_calls,
                   stalls>>
    /\ UNCHANGED <<single_rows, tt_vars, ex_vars, row_vars, tb_vars>>

\* self.combined_data['evaluation_data'].extend(page_data)
ExtendReplaces(data, page_data) == page_data

Extend(data, page_data) == data \o page_data

\* page_info['total_pages'] = max(current_page, page_info['total_pages'])
PageInfoTotalPagesLatest(page, pages_so_far) == page

PageInfoTotalPages(page, pages_so_far) == Max(page, pages_so_far)

\* The call made for a page of new data: save_incremental_data.
AfterNewPageSkipSave == "nav_decision"

AfterNewPage == "save_json_open"

\* if current_page == 1 (no data on the first page: break)
IsFirstPageAlways(page) == TRUE

IsFirstPage(page) == page = 1

\* if current_page_data: fingerprint, duplicate check, all_data.extend and the
\* in-memory part of save_incremental_data; else the first-page check.
CommitPage ==
    /\ pc = "commit"
    /\ IF current_page_data # <<>>
       THEN LET data_hash == Fingerprint(current_page_data)
            IN  /\ stalls' = IF data_hash \in previous_data_hashes
                             THEN Min(stalls + 1, NavCap) ELSE stalls
                /\ IF IsRepeat(data_hash, previous_data_hashes)
                   THEN /\ Break("duplicate")
                        /\ UNCHANGED <<previous_data_hashes, seen_pages, all_data, sink>>
                   ELSE /\ previous_data_hashes' = previous_data_hashes \cup {data_hash}
                        /\ seen_pages' = seen_pages \cup {current_page_data}
                        /\ all_data' = all_data \o current_page_data
                        /\ evaluation_data' = Extend(evaluation_data, current_page_data)
                        /\ pi_total_pages' = PageInfoTotalPages(current_page, pi_total_pages)
                        /\ pi_total_records' = Len(evaluation_data')
                        /\ committed_pages' = committed_pages \cup {current_page}
                        /\ pc' = AfterNewPage
                        /\ UNCHANGED end_reason
       ELSE /\ IF IsFirstPage(current_page)
               THEN Break(IF table_element THEN "no_rows_first_page"
                                          ELSE "no_table_first_page")
               ELSE pc' = "nav_decision" /\ UNCHANGED end_reason
            /\ UNCHANGED <<previous_data_hashes, seen_pages, all_data, sink, stalls>>
    /\ UNCHANGED <<run, driver, current_page, total_pages, current_page_data, table_element,
                   retry, pre_nav_has_next, files, result, nav_calls, extracted_page>>
    /\ UNCHANGED <<single_rows, tt_vars, ex_vars, row_vars, tb_vars>>

\* ------------------------------------------------------------- save_incremental_data
\* open(json_filename, 'w'): the file is truncated.
SaveJsonOpen ==
    /\ pc = "save_json_open"
    /\ json_file' = <<>>
    /\ pc' = "save_json_dump"
    /\ UNCHANGED <<run, driver, locals, sink, csv_file, completed, result, end_reason,
                   nav_calls, stalls, extracted_page>>
    /\ UNCHANGED <<single_rows, tt_vars, ex_vars, row_vars, tb_vars>>

\* open(json_filename, 'w') raises OSError: the exception reaches the caller.
SaveJsonOpenRaises ==
    /\ pc = "save_json_open"
    /\ drv_mode # "stub"
    /\ RaiseToCaller
    /\ UNCHANGED <<run, driver, sink, files>>
    /\ UNCHANGED <<single_rows, tt_vars, ex_vars, row_vars, tb_vars>>

\* json.dump(self.combined_data, f): the whole accumulator is written.
SaveJsonDump ==
    /\ pc = "save_json_dump"
    /\ json_file' = evaluation_data
    /\ pc' = "save_csv_open"
    /\ UNCHANGED <<run, driver, locals, sink, csv_file, completed, result, end_reason,
                   nav_calls, stalls, extracted_page>>
    /\ UNCHANGED <<single_rows, tt_vars, ex_vars, row_vars, tb_vars>>

\* df.to_csv(csv_filename): the file is opened for writing, truncated.
SaveCsvOpen ==
    /\ pc = "save_csv_open"
    /\ csv_file' = <<>>
    /\ pc' = "save_csv_write"
    /\ UNCHANGED <<run, driver, locals, sink, json_file, completed, result, end_reason,
                   nav_calls, stalls, extracted_page>>
    /\ UNCHANGED <<single_rows, tt_vars, ex_vars, row_vars, tb_vars>>

\* df.to_csv writes every record; save_incremental_data returns.
SaveCsvWrite ==
    /\ pc = "save_csv_write"
    /\ csv_file' = evaluation_data
    /\ completed' = evaluation_data
    /\ pc' = "nav_decision"
    /\ UNCHANGED <<run, driver, locals, sink, json_file, result, end_reason,
                   nav_calls, stalls, extracted_page>>
    /\ UNCHANGED <<single_rows, tt_vars, ex_vars, row_vars, tb_vars>>

\* ------------------------------------------------------------- navigation
\* if current_page >= total_pages: break
ReachedLastPage ==
    /\ pc = "nav_decision"
    /\ current_page >= total_pages
    /\ Break("last_page")
    /\ UNCHANGED <<run, driver, locals, sink, files, result, nav_calls, stalls, extracted_page>>
    /\ UNCHANGED <<single_rows, tt_vars, ex_vars, row_vars, tb_vars>>

\* if not pre_nav_pagination['has_next']: break
NextButtonMissingNever(info) == FALSE

NextButtonMissing(info) == ~info.has_next

\* pre_nav_pagination = self._get_pagination_info() and its two checks.
PreNavCheck ==
    /\ pc = "nav_decision"
    /\ ~(current_page >= total_pages)
    /\ \E raw \in RawReadings :
          LET info == GetPaginationInfo(raw)
          IN  /\ pre_nav_has_next' = info.has_next
              /\ IF NextButtonMissing(info)
                 THEN Break("no_next_button")
                 ELSE IF info.current_page >= info.total_pages
                 THEN Break("last_page_reported")
                 ELSE pc' = "navigate" /\ UNCHANGED end_reason
              /\ DriverRead(raw)
    /\ UNCHANGED <<run, current_page, total_pages, previous_data_hashes, seen_pages,
                   all_data,
                   current_page_data, table_element, retry, sink, files, result,
                   nav_calls, stalls, extracted_page>>
    /\ UNCHANGED <<single_rows, tt_vars, ex_vars, row_vars, tb_vars>>

\* What _navigate_to_next_page can return.
NavigationOutcomes == IF drv_mode = "free" THEN BOOLEAN ELSE {TRUE}

\* navigation_successful = self._navigate_to_next_page(current_page, total_pages)
NavigateToNextPage ==
    /\ pc = "navigate"
    /\ nav_calls' = IF drv_mode = "stuck" THEN Min(nav_calls + 1, NavCap) ELSE nav_calls
    /\ \E ok \in NavigationOutcomes :
          IF ok
          THEN /\ pc' = "post_navigation"
               /\ drv_page' = IF drv_mode = "stub" THEN drv_page + 1 ELSE drv_page
               /\ UNCHANGED end_reason
          ELSE /\ Break("navigation_failed")
               /\ UNCHANGED drv_page
    /\ UNCHANGED <<run, drv_mode, last_reported, locals, sink, files, result, stalls,
                   extracted_page>>
    /\ UNCHANGED <<single_rows, tt_vars, ex_vars, row_vars, tb_vars>>

\* if new_page_number <= current_page: break
PageAdvancedAlways(new_page_number, page) == TRUE

PageAdvancedOrSame(new_page_number, page) == ~(new_page_number < page)

PageAdvanced(new_page_number, page) == ~(new_page_number <= page)

\* post_nav_pagination = self._get_pagination_info(); break unless the page
\* number increased, else current_page = new_page_number.
PostNavigation ==
    /\ pc = "post_navigation"
    /\ \E raw \in RawReadings :
          LET new_page_number == GetPaginationInfo(raw).current_page
          IN  /\ stalls' = IF new_page_number <= current_page
                           THEN Min(stalls + 1, NavCap) ELSE stalls
              /\ IF PageAdvanced(new_page_number, current_page)
                 THEN /\ current_page' = new_page_number
                      /\ pc' = "loop_top"
                      /\ UNCHANGED end_reason
                 ELSE /\ Break("no_increase")
                      /\ UNCHANGED current_page
              /\ DriverRead(raw)
    /\ UNCHANGED <<run, total_pages, previous_data_hashes, seen_pages,
                   all_data, current_page_data,
                   table_element, retry, pre_nav_has_next, sink, files, result, nav_calls,
                   extracted_page>>
    /\ UNCHANGED <<single_rows, tt_vars, ex_vars, row_vars, tb_vars>>

\* return all_data; _extract_page_info; return self.combined_data
ReturnCombinedData ==
    /\ pc = "loop_exit"
    /\ pc' = "idle"
    /\ result' = "combined_data"
    /\ end_reason' = "none"
    /\ nav_calls' = 0
    /\ stalls' = 0
    /\ extracted_page' = 0
    /\ ResetLocals
    /\ UNCHANGED <<run, driver, sink, files>>
    /\ UNCHANGED <<single_rows, tt_vars, ex_vars, row_vars, tb_vars>>

\* The process dies (crash, kill of a hung session): memory is gone, the
\* files stay as they are.
Crash ==
    /\ pc \notin {"idle", "crashed"}
    /\ pc' = "crashed"
    /\ result' = "crashed"
    /\ end_reason' = "none"
    /\ ResetLocals
    /\ evaluation_data' = <<>>
    /\ pi_total_pages' = 0
    /\ pi_total_records' = 0
    /\ committed_pages' = {}
    /\ nav_calls' = 0
    /\ stalls' = 0
    /\ extracted_page' = 0
    /\ UNCHANGED <<run, driver, files>>
    /\ UNCHANGED <<single_rows, tt_vars, ex_vars, row_vars, tb_vars>>

\* ------------------------------------------------------------- specification
Program ==
    \/ StartRun
    \/ LoadPage
    \/ LoadRaises
    \/ ScrapeAllPagesInit
    \/ LoopTest
    \/ ReadPagination
    \/ FirstPageAttempt
    \/ FirstPageRefreshRaises
    \/ ExtractPage
    \/ CommitPage
    \/ SaveJsonOpen
    \/ SaveJsonOpenRaises
    \/ SaveJsonDump
    \/ SaveCsvOpen
    \/ SaveCsvWrite
    \/ ReachedLastPage
    \/ PreNavCheck
    \/ NavigateToNextPage
    \/ PostNavigation
    \/ ReturnCombinedData

Next == Program \/ Crash

Spec == Init /\ [][Next]_vars

\* The interpreter keeps executing the session while it has a step to take.
FairSpec == Init /\ [][Next]_vars /\ WF_vars(Program)

\* ------------------------------------------------------------- timetable scraper
\* scrape_all_courses of TTBScraperEnhanced
\* (src/Courses-Timetable/ttb_scraper_enhanced.py).
\* What a call made by scrape_all_courses can do: return normally, fail with
\* an exception that the callee catches itself (it returns False, or the
\* courses it has), or let an exception out to scrape_all_courses (raised in
\* the callee's own handler, or by a logging call).
CallOutcomes == {"ok", "caught", "raise"}

\* The courses one page can give, while the session's list has room: no
\* code twice, extract_from_containers passing over a code it has met on the
\* page (extract_from_table gives no course).
CourseLists ==
    LET codes == 1..NumCourses
        lists == {<<>>} \cup {<<c>> : c \in codes}
                 \cup {p \in {<<c, e>> : c \in codes, e \in codes} : p[1] # p[2]}
    IN  {l \in lists : Len(all_courses) + Len(l) <= MaxCourses}

\* except Exception as e: errors.append(f"Unexpected error: {str(e)}")
UnexpectedError ==
    /\ errors' = Append(errors, "Unexpected error")
    /\ tt_raised' = TRUE
    /\ tt_pc' = "finally"

\* One of the four steps before the page loop: on False the error is noted
\* and ScrapingResult(all_courses, 0, errors, "", "ALL") is returned.
Gate(here, next, message) ==
    /\ tt_pc = here
    /\ \E outcome \in CallOutcomes :
          IF outcome = "ok"
          THEN /\ tt_pc' = next
               /\ UNCHANGED <<errors, tt_raised>>
          ELSE IF outcome = "caught"
          THEN /\ errors' = Append(errors, message)
               /\ tt_raised' = TRUE
               /\ tt_pc' = "finally_early"
          ELSE UnexpectedError
    /\ UNCHANGED <<page_count, all_courses, file_handle, courses_bound, courses, tt_result>>

\* scrape_all_courses is called: all_courses = [], errors = [], no file yet;
\* courses is not bound.
StartScrapeAllCourses ==
    /\ tt_pc = "idle"
    /\ tt_result = "not_called"
    /\ tt_pc' = "setup_csv"
    /\ tt_result' = "pending"
    /\ UNCHANGED <<page_count, all_courses, errors, file_handle, courses_bound, courses,
                   tt_raised>>
    /\ UNCHANGED <<csv_rows, next_page_calls>>
    /\ UNCHANGED <<v7_vars, ex_vars, row_vars, tb_vars>>

\* csv_filepath, file_handle, csv_writer = self.setup_incremental_csv(filename)
SetupIncrementalCsv ==
    /\ tt_pc = "setup_csv"
    /\ \E opened \in BOOLEAN :
          IF opened
          THEN file_handle' = "open" /\ UNCHANGED errors
          ELSE /\ errors' = Append(errors, "Failed to set up incremental CSV saving")
               /\ UNCHANGED file_handle
    /\ tt_pc' = "navigate"
    /\ UNCHANGED <<page_count, all_courses, courses_bound, courses, tt_result, tt_raised>>
    /\ UNCHANGED <<csv_rows, next_page_calls>>
    /\ UNCHANGED <<v7_vars, ex_vars, row_vars, tb_vars>>

NavigateToTimetable ==
    /\ Gate("navigate", "division", "Failed to navigate to timetable page")
    /\ UNCHANGED <<csv_rows, next_page_calls>>
    /\ UNCHANGED <<v7_vars, ex_vars, row_vars, tb_vars>>

SelectDivision ==
    /\ Gate("division", "sessions", "Failed to select division")
    /\ UNCHANGED <<csv_rows, next_page_calls>>
    /\ UNCHANGED <<v7_vars, ex_vars, row_vars, tb_vars>>

EnsureSessionsSelected ==
    /\ Gate("sessions", "search", "Failed to ensure sessions are selected")
    /\ UNCHANGED <<csv_rows, next_page_calls>>
    /\ UNCHANGED <<v7_vars, ex_vars, row_vars, tb_vars>>

PerformSearch ==
    /\ Gate("search", "page_loop", "Failed to perform search")
    /\ UNCHANGED <<csv_rows, next_page_calls>>
    /\ UNCHANGED <<v7_vars, ex_vars, row_vars, tb_vars>>

\* while page_count < self.max_pages
BelowMaxPagesAlways(count) == TRUE

BelowMaxPages(count) == count < max_pages

\* while page_count < self.max_pages: page_count += 1
PageLoopTest ==
    /\ tt_pc = "page_loop"
    /\ IF BelowMaxPages(page_count)
       THEN page_count' = page_count + 1 /\ tt_pc' = "extract_page"
       ELSE tt_pc' = "convert" /\ UNCHANGED page_count
    /\ UNCHANGED <<all_courses, errors, file_handle, courses_bound, courses, tt_result,
                   tt_raised>>
    /\ UNCHANGED <<csv_rows, next_page_calls>>
    /\ UNCHANGED <<v7_vars, ex_vars, row_vars, tb_vars>>

\* page_courses = self.extract_all_courses_from_page(csv_writer, file_handle);
\* if page_courses: all_courses.extend(page_courses). Inside the call each
\* course is written to the CSV when the file was set up; an exception caught
\* inside leaves the rows written so far.
ExtractAllCoursesFromPage ==
    /\ tt_pc = "extract_page"
    /\ \E outcome \in CallOutcomes :
          IF outcome = "raise"
          THEN UnexpectedError /\ UNCHANGED <<all_courses, csv_rows>>
          ELSE /\ \E page_courses \in CourseLists :
                     /\ all_courses' = all_courses \o page_courses
                     /\ \E written \in (IF outcome = "ok" THEN {Len(page_courses)}
                                                        ELSE 0..Len(page_courses)) :
                            csv_rows' = IF file_handle = "open"
                                        THEN csv_rows \o SubSeq(page_courses, 1, written)
                                        ELSE csv_rows
               /\ tt_raised' = (tt_raised \/ outcome = "caught")
               /\ tt_pc' = "next_page"
               /\ UNCHANGED errors
    /\ UNCHANGED <<page_count, file_handle, courses_bound, courses, tt_result>>
    /\ UNCHANGED next_page_calls
    /\ UNCHANGED <<v7_vars, ex_vars, row_vars, tb_vars>>

\* if not self.check_for_next_page(): break
CheckForNextPage ==
    /\ tt_pc = "next_page"
    /\ \/ \E has_next \in BOOLEAN :
             /\ tt_pc' = IF has_next THEN "page_loop" ELSE "convert"
             /\ UNCHANGED <<errors, tt_raised>>
       \/ \* an exception inside, caught there: False
          /\ tt_pc' = "convert"
          /\ tt_raised' = TRUE
          /\ UNCHANGED errors
       \/ UnexpectedError
    /\ UNCHANGED <<page_count, all_courses, file_handle, courses_bound, courses, tt_result>>
    /\ next_page_calls' = next_page_calls + 1
    /\ UNCHANGED csv_rows
    /\ UNCHANGED <<v7_vars, ex_vars, row_vars, tb_vars>>

\* courses = []; one Course per CourseDetail; log_scraping_session
ConvertCourses ==
    /\ tt_pc = "convert"
    /\ courses_bound' = TRUE
    /\ \/ /\ courses' = all_courses
          /\ tt_pc' = "finally"
          /\ UNCHANGED <<errors, tt_raised>>
       \/ \* Course(...) raises at the first CourseDetail
          /\ courses' = <<>>
          /\ UnexpectedError
    /\ UNCHANGED <<page_count, all_courses, file_handle, tt_result>>
    /\ UNCHANGED <<csv_rows, next_page_calls>>
    /\ UNCHANGED <<v7_vars, ex_vars, row_vars, tb_vars>>

\* finally: file_handle.close(); then, after a return inside the try, that
\* ScrapingResult is returned; else return ScrapingResult(courses, ...), which
\* raises UnboundLocalError when courses is not bound.
FinallyAndReturn ==
    /\ tt_pc \in {"finally", "finally_early"}
    /\ file_handle' = IF file_handle = "open" THEN "closed" ELSE file_handle
    /\ tt_result' = IF tt_pc = "finally_early" \/ courses_bound
                    THEN "ScrapingResult" ELSE "UnboundLocalError"
    /\ tt_pc' = "done"
    /\ UNCHANGED <<page_count, all_courses, errors, courses_bound, courses, tt_raised>>
    /\ UNCHANGED <<csv_rows, next_page_calls>>
    /\ UNCHANGED <<v7_vars, ex_vars, row_vars, tb_vars>>

TTNext ==
    \/ StartScrapeAllCourses
    \/ SetupIncrementalCsv
    \/ NavigateToTimetable
    \/ SelectDivision
    \/ EnsureSessionsSelected
    \/ PerformSearch
    \/ PageLoopTest
    \/ ExtractAllCoursesFromPage
    \/ CheckForNextPage
    \/ ConvertCourses
    \/ FinallyAndReturn

TTSpec == TTInit /\ [][TTNext]_vars

\* The interpreter keeps executing the call while it has a step to take;
\* every wait in a step has a timeout.
TTFairSpec == TTInit /\ [][TTNext]_vars /\ WF_vars(TTNext)

\* ------------------------------------------------------------- _extract_main_table, step by step
\* One pass of the loop over the tables: rows, the two checks, the headers.
\* An exception (a stale element) skips the table, unless it is raised inside
\* _extract_table_headers, which then returns its fallback headers.
ExamineTable ==
    /\ ex_pc = "locate"
    /\ table_index <= Len(tables)
    /\ LET rows == tables[table_index]
       IN  \E raises \in {"nothing", "table", "headers"} :
              IF raises = "table"
              THEN /\ raised_tables' = raised_tables \cup {table_index}
                   /\ table_index' = table_index + 1
                   /\ UNCHANGED <<ex_pc, headers>>
              ELSE IF HasSubstantialRows(rows) /\ TableHasMarker(rows)
              THEN /\ IF raises = "headers"
                      THEN /\ headers' \in FallbackHeaders(rows)
                           /\ raised_tables' = raised_tables \cup {table_index}
                      ELSE /\ headers' = ExtractTableHeaders(rows)
                           /\ UNCHANGED raised_tables
                   /\ ex_pc' = "check_headers"
                   /\ UNCHANGED table_index
              ELSE /\ raises = "nothing"
                   /\ table_index' = table_index + 1
                   /\ UNCHANGED <<ex_pc, headers, raised_tables>>
    /\ UNCHANGED <<tables, selected_table, header_row_index, row_index, table_data>>
    /\ UNCHANGED <<v7_vars, tt_vars, row_vars, tb_vars>>

\* if headers and len(headers) > 3: table_element = table; break
CheckHeaders ==
    /\ ex_pc = "check_headers"
    /\ IF MeaningfulHeaders(headers)
       THEN /\ selected_table' = table_index
            /\ ex_pc' = "extract"
            /\ UNCHANGED table_index
       ELSE /\ table_index' = table_index + 1
            /\ ex_pc' = "locate"
            /\ UNCHANGED selected_table
    /\ UNCHANGED <<tables, headers, header_row_index, row_index, table_data, raised_tables>>
    /\ UNCHANGED <<v7_vars, tt_vars, row_vars, tb_vars>>

\* if not table_element: return table_data
NoTableFound ==
    /\ ex_pc = "locate"
    /\ table_index > Len(tables)
    /\ ex_pc' = "done"
    /\ UNCHANGED <<tables, table_index, selected_table, headers, header_row_index, row_index,
                   table_data, raised_tables>>
    /\ UNCHANGED <<v7_vars, tt_vars, row_vars, tb_vars>>

\* headers = self._extract_table_headers(...); if not headers: return;
\* header_row_index = self._find_header_row_index(...)
StartRows ==
    /\ ex_pc = "extract"
    /\ LET rows == tables[selected_table]
       IN  /\ \/ headers' = ExtractTableHeaders(rows) /\ UNCHANGED raised_tables
              \/ /\ headers' \in FallbackHeaders(rows)
                 /\ raised_tables' = raised_tables \cup {selected_table}
           /\ IF headers' = <<>>
              THEN ex_pc' = "done" /\ UNCHANGED <<header_row_index, row_index>>
              ELSE /\ header_row_index' = FindHeaderRowIndex(rows)
                   /\ row_index' = header_row_index' + 2
                   /\ ex_pc' = "rows"
    /\ UNCHANGED <<tables, table_index, selected_table, table_data>>
    /\ UNCHANGED <<v7_vars, tt_vars, row_vars, tb_vars>>

\* One pass of the loop over rows[header_row_index + 1:].
ProcessNextRow ==
    /\ ex_pc = "rows"
    /\ row_index <= Len(tables[selected_table])
    /\ LET after == ProcessRow(tables[selected_table][row_index], headers, table_data)
       IN  /\ headers' = after.hdrs
           /\ table_data' = after.data
    /\ row_index' = row_index + 1
    /\ UNCHANGED <<ex_pc, tables, table_index, selected_table, header_row_index, raised_tables>>
    /\ UNCHANGED <<v7_vars, tt_vars, row_vars, tb_vars>>

\* return table_data
ReturnTableData ==
    /\ ex_pc = "rows"
    /\ row_index > Len(tables[selected_table])
    /\ ex_pc' = "done"
    /\ UNCHANGED <<tables, table_index, selected_table, headers, header_row_index, row_index,
                   table_data, raised_tables>>
    /\ UNCHANGED <<v7_vars, tt_vars, row_vars, tb_vars>>

ExNext ==
    \/ ExamineTable
    \/ CheckHeaders
    \/ NoTableFound
    \/ StartRows
    \/ ProcessNextRow
    \/ ReturnTableData

ExSpec == ExInit /\ [][ExNext]_vars


\* ------------------------------------------------------------- one row, bound and validated
\* The body of the loop over the rows of _extract_main_table (lines 650-686)
\* on one row and one list of headers.
\* The headers _extract_table_headers can have returned: the five names,
\* generated names, three names, names of which one is repeated, and the
\* words of a keyword row.
Schemas ==
    {ThFive.th,
     [i \in 1..5 |-> ColumnName(i)],
     <<"Course", "Name", "Term">>,
     <<"Dept", "Course", "Name", "Rating", "Rating">>,
     TdKeywords.td}

\* The rows: no cell, the rows of the tables, a row of cells without text,
\* and each of them with any one cell holding any of the texts of the cells.
RowInputs ==
    LET Texts == {"", "Dept", "Course", "Name", "Term", "Rating", "CSC", "CSC108",
                  "Smith", "Fall", "4.5", "Section", "Size", "Score", "Class"}
        BaseCells == {Data5.td, Data6.td, Data3.td, Data4.td, TdFive.td, TdKeywords.td,
                      <<"", "", "", "", "">>}
    IN  {<<>>} \cup BaseCells
        \cup UNION {{[cells EXCEPT ![j] = text] : j \in 1..Len(cells), text \in Texts} :
                       cells \in BaseCells}

\* The loop is at a row, with the headers as the rows before left them.
RowInit ==
    /\ ScraperInit({"stub"}) /\ TTBInit /\ ExParked /\ TblParked
    /\ rv_pc = "bind"
    /\ row_cells \in RowInputs
    /\ row_schema \in Schemas
    /\ row_headers = row_schema
    /\ row_record = <<>>
    /\ row_accepted = FALSE

\* if len(cells) > 0: false, the row is passed over.
SkipRowWithoutCells ==
    /\ rv_pc = "bind"
    /\ Len(row_cells) = 0
    /\ rv_pc' = "done"
    /\ UNCHANGED <<row_cells, row_schema, row_headers, row_record, row_accepted>>
    /\ UNCHANGED <<v7_vars, tt_vars, ex_vars, tb_vars>>

\* row_data = {}; the headers are extended; each cell is stored under its
\* header; the missing columns get "".
BindRowToHeaders ==
    /\ rv_pc = "bind"
    /\ Len(row_cells) > 0
    /\ row_headers' = PadHeaders(row_headers, Len(row_cells))
    /\ row_record' = BindRow(row_cells, row_headers')
    /\ rv_pc' = "validate"
    /\ UNCHANGED <<row_cells, row_schema, row_accepted>>
    /\ UNCHANGED <<v7_vars, tt_vars, ex_vars, tb_vars>>

\* if self._is_valid_course_data_row(row_data): table_data.append(row_data)
ValidateRow ==
    /\ rv_pc = "validate"
    /\ row_accepted' = IsValidCourseDataRow(row_record)
    /\ rv_pc' = "done"
    /\ UNCHANGED <<row_cells, row_schema, row_headers, row_record>>
    /\ UNCHANGED <<v7_vars, tt_vars, ex_vars, tb_vars>>

RowNext ==
    \/ SkipRowWithoutCells
    \/ BindRowToHeaders
    \/ ValidateRow

RowSpec == RowInit /\ [][RowNext]_vars

\* ------------------------------------------- timetable: extract_from_table
\* Most rows one table of the timetable page has.
MaxTblRows == 3

\* str.strip() on the cell and row texts of the timetable page.
Strip(text) ==
    CASE text = " CSC108 " -> "CSC108"
      [] text = "  " -> ""
      [] OTHER -> text

\* A WebElement with its text; a Python list of them has is_list and items.
WebElement(text) == [is_list |-> FALSE, text |-> text]

\* safe_extract_text(cells, index): the stripped text of cells[index] when
\* cells is a list longer than index, of cells itself when it has a text, and
\* "" otherwise.
SafeExtractText(cells, index) ==
    IF cells.is_list /\ Len(cells.items) > index
    THEN Strip(cells.items[index + 1])
    ELSE IF ~cells.is_list
    THEN Strip(cells.text)
    ELSE ""

\* The call self.safe_extract_text(*args): the method has two required
\* parameters, so a call with any other number of arguments raises TypeError
\* before the body runs.
CallSafeExtractText(args) ==
    IF Len(args) = 2
    THEN [raised |-> FALSE, value |-> SafeExtractText(args[1], args[2])]
    ELSE [raised |-> TRUE, value |-> ""]

\* 'header' in row.get_attribute('class').lower()
IsHeaderClass(class) == class \in {"header", "Header-Row"}

\* "Notes:" in row_text, and row_text[notes_start:].strip(); row.text is the
\* texts of the cells and only a cell that starts with "Notes:" contains it.
NotesOf(cells) ==
    LET noted == {j \in 1..Len(cells) : cells[j] = "Notes: online"}
    IN  IF noted = {} THEN "" ELSE "Notes: online"

\* The body of the per-row try of extract_from_table for a row that is not
\* skipped: the calls in the order the code makes them; raised when one of
\* them raised, else the CourseDetail built.
ExtractCourseDetail(cells) ==
    LET code == CallSafeExtractText(<<WebElement(cells[1])>>)
        title == CallSafeExtractText(<<WebElement(cells[2])>>)
        section_text == CallSafeExtractText(<<WebElement(cells[3])>>)
        optional(j) == IF Len(cells) > j - 1
                       THEN CallSafeExtractText(<<WebElement(cells[j])>>)
                       ELSE [raised |-> FALSE, value |-> ""]
        with_section == ~section_text.raised /\ section_text.value # ""
        raised == \/ code.raised \/ title.raised \/ section_text.raised
                  \/ with_section /\ \E j \in 4..6 : optional(j).raised
    IN  [raised |-> raised,
         detail |->
             [course_code |-> code.value,
              course_title |-> title.value,
              sections |-> IF with_section
                           THEN <<[section |-> section_text.value,
                                   instructor |-> optional(4).value,
                                   time |-> optional(5).value,
                                   location |-> optional(6).value]>>
                           ELSE <<>>,
              campus |-> "St. George",
              notes |-> NotesOf(cells)]]

\* The tr elements a timetable page can show, by class attribute and td
\* texts: a heading row, a marked header row, course rows, a row with notes
\* and no section, a row of two cells and a row with a blank code.
TblRows ==
    {[class |-> "", td |-> <<>>],
     [class |-> "Header-Row", td |-> <<"Code", "Title", "Section">>],
     [class |-> "", td |-> <<"CSC108", "Intro", "LEC0101">>],
     [class |-> "course", td |-> <<" CSC108 ", "Intro", "LEC0101", "Smith">>],
     [class |-> "", td |-> <<"MAT137", "Calculus", "", "Notes: online">>],
     [class |-> "", td |-> <<"CSC108", "Intro">>],
     [class |-> "", td |-> <<"  ", "Intro", "LEC0101">>]}

\* What "table tr" matches on the page when extract_from_table is entered.
TblInit ==
    /\ ScraperInit({"stub"}) /\ TTBInit /\ ExParked /\ RowParked
    /\ tb_pc = "find"
    /\ course_rows \in UNION {[1..n -> TblRows] : n \in 0..MaxTblRows}
    /\ tb_index = 1
    /\ tb_courses = <<>>

\* courses = []; find_elements("table tr"), which may raise into the outer
\* except; return courses when there are no rows.
FindCourseRows ==
    /\ tb_pc = "find"
    /\ \E raises \in BOOLEAN :
         IF raises
         THEN tb_pc' = "done" /\ course_rows' = <<>>
         ELSE /\ tb_pc' = IF course_rows = <<>> THEN "done" ELSE "rows"
              /\ UNCHANGED course_rows
    /\ UNCHANGED <<tb_index, tb_courses>>
    /\ UNCHANGED <<v7_vars, tt_vars, ex_vars, row_vars>>

\* One iteration of for i, row in enumerate(course_rows).
ProcessTableRow ==
    /\ tb_pc = "rows"
    /\ tb_index <= Len(course_rows)
    /\ LET i == tb_index - 1
           row == course_rows[tb_index]
           cells == row.td
           extracted == ExtractCourseDetail(cells)
       IN  tb_courses' =
               IF i = 0 \/ IsHeaderClass(row.class) THEN tb_courses
               ELSE IF Len(cells) < 3 THEN tb_courses
               ELSE IF extracted.raised THEN tb_courses
               ELSE IF extracted.detail.course_code # ""
               THEN Append(tb_courses, extracted.detail)
               ELSE tb_courses
    /\ tb_index' = tb_index + 1
    /\ UNCHANGED <<tb_pc, course_rows>>
    /\ UNCHANGED <<v7_vars, tt_vars, ex_vars, row_vars>>

\* return courses
ReturnTableCourses ==
    /\ tb_pc = "rows"
    /\ tb_index > Len(course_rows)
    /\ tb_pc' = "done"
    /\ UNCHANGED <<course_rows, tb_index, tb_courses>>
    /\ UNCHANGED <<v7_vars, tt_vars, ex_vars, row_vars>>

TblNext ==
    \/ FindCourseRows
    \/ ProcessTableRow
    \/ ReturnTableCourses

TblSpec == TblInit /\ [][TblNext]_vars

\* ------------------------------------------------------------- claims
\* Positions inside the while loop of _scrape_all_pages_fixed.
SavePcs == {"save_json_open", "save_json_dump", "save_csv_open", "save_csv_write"}

LoopPcs == {"loop_top", "read_pagination", "first_page", "extract", "commit",
            "nav_decision", "navigate", "post_navigation"} \cup SavePcs

\* C1: whatever the driver reports, the page loop of _scrape_all_pages_fixed
\* reaches its end: from the loop test the session always gets to the loop's
\* exit (or has returned, or the process is gone).
C1_LoopTerminates == (pc = "loop_top") ~> (pc \in {"loop_exit", "idle", "crashed"})

\* C2: a page whose fingerprint is already in previous_data_hashes is not
\* passed to save_incremental_data and adds no record to evaluation_data.
C2_RepeatPageNotSaved ==
    [][(/\ pc = "commit"
        /\ current_page_data # <<>>
        /\ Fingerprint(current_page_data) \in previous_data_hashes)
       => (/\ pc' \notin SavePcs
           /\ Len(evaluation_data') <= Len(evaluation_data)
           /\ json_file' = json_file
           /\ csv_file' = csv_file)]_vars

\* C2 witness: the loop was left on a repeated page, served in another row
\* order, while current_page < total_pages.
C2_Witness ==
    /\ pc = "loop_exit"
    /\ end_reason = "duplicate"
    /\ current_page < total_pages
    /\ current_page_data # Fingerprint(current_page_data)
    /\ Fingerprint(current_page_data) \in previous_data_hashes

\* C3 as stated: the loop is left because of stalling only once two stalls
\* have been counted.
C3_StallEndNeedsTwo ==
    (pc = "loop_exit" /\ end_reason \in {"duplicate", "no_increase"}) => stalls >= 2

\* C3 amended: the first stall (a repeated page, or a navigation after which
\* the page number did not increase) ends the loop: a stall is never followed
\* by another page.
C3_FirstStallEnds ==
    stalls >= 1 => (/\ stalls = 1
                    /\ pc = "loop_exit"
                    /\ end_reason \in {"duplicate", "no_increase"})

\* C3 witness: the loop was left after one navigation that did not increase
\* the page number.
C3_Witness == pc = "loop_exit" /\ end_reason = "no_increase" /\ stalls = 1

\* C4: after two calls of scrape_course_evaluation against the two-page stub
\* the sink holds one copy of each page's rows.
C4_RerunAppendsNothing ==
    (drv_mode = "stub" /\ run = 2 /\ pc = "idle" /\ result = "combined_data")
        => evaluation_data = StubData[1] \o StubData[2]

\* C5: when _navigate_to_next_page is about to be called, every page
\* extracted in this run, the current one included, is in evaluation_data and
\* in both files.
C5_CommittedBeforeNavigate ==
    pc = "navigate" => (/\ IsSuffix(current_page_data, all_data)
                        /\ IsSuffix(all_data, evaluation_data)
                        /\ IsSuffix(all_data, json_file)
                        /\ IsSuffix(all_data, csv_file))

\* C5 witness: a navigation starts from a page with new records, after an
\* earlier page with records.
C5_Witness ==
    /\ pc = "navigate"
    /\ current_page_data # <<>>
    /\ Len(all_data) > Len(current_page_data)

\* C6: no step of a live session removes or changes a record already in
\* evaluation_data: the old list is a prefix of the new one.
C6_CommittedPrefixKept ==
    [][pc' # "crashed" => IsPrefix(evaluation_data, evaluation_data')]_vars

\* C6 witness: an exception ended scrape_course_evaluation after records were
\* committed.
C6_Witness == pc = "idle" /\ result = "None" /\ evaluation_data # <<>>

\* C7: at every instant each of the two files holds at least the records of
\* the calls of save_incremental_data that have returned.
C7_PersistedHoldsCompleted ==
    IsPrefix(completed, json_file) /\ IsPrefix(completed, csv_file)

\* C8: inside the page loop current_page never decreases.
C8_CurrentPageNeverDecreases ==
    [][(pc \in LoopPcs /\ pc' \in LoopPcs) => current_page' >= current_page]_vars

\* C9: against a driver whose next button is always enabled, whose clicks
\* succeed and whose page number never increases, at most 2 navigations are
\* made, and after a navigation the loop only verifies the page number and
\* ends.
C9_StuckDriverBound ==
    drv_mode = "stuck" => (/\ nav_calls <= 2
                           /\ nav_calls >= 1 => pc \in {"post_navigation", "loop_exit"})

\* C9 witness: the non-advancing driver was navigated once and the loop ended.
C9_Witness ==
    /\ drv_mode = "stuck"
    /\ pc = "loop_exit"
    /\ end_reason = "no_increase"
    /\ nav_calls = 1

\* C10: a first page on which no table was selected makes the call return the
\* failure value.
C10_NoTableIsFailed ==
    [][(pc = "loop_exit" /\ end_reason = "no_table_first_page" /\ pc' = "idle")
       => result' = "None"]_vars

\* C11 as stated: when the first-page extraction ends without a table, no
\* retry of the extraction and no refresh of the page has been made.
C11_NoRetryOnNoTable ==
    [][(/\ pc = "first_page"
        /\ pc' = "commit"
        /\ current_page_data' = <<>>
        /\ ~table_element')
       => retry = 0]_vars

\* C11 amended: scrape_first_page_with_retry gives up on the first page only
\* at its last attempt, that is after max_retry_attempts - 1 attempts that
\* each ended in a refresh of the page.
C11_GivesUpAfterRetries ==
    [][(/\ pc = "first_page"
        /\ pc' = "commit"
        /\ current_page_data' = <<>>)
       => retry = max_retry_attempts - 1]_vars

\* C11 witness: the loop was left on a first page with no table.
C11_Witness ==
    /\ pc = "loop_exit"
    /\ end_reason = "no_table_first_page"
    /\ current_page = 1
    /\ all_data = <<>>

\* C12: on a page other than page 1 an extraction that returns no rows
\* commits nothing, leaves previous_data_hashes as it is and passes to the
\* navigation decision.
C12_EmptyLaterPageGoesOn ==
    [][(/\ pc = "commit"
        /\ current_page # 1
        /\ current_page_data = <<>>
        /\ pc' # "crashed")
       => (/\ pc' = "nav_decision"
           /\ UNCHANGED <<previous_data_hashes, all_data, sink, files>>)]_vars

\* C12 witness: the navigation decision is reached on a later page on which
\* no table was selected, after an earlier page with records.
C12_Witness ==
    /\ pc = "nav_decision"
    /\ current_page > 1
    /\ ~table_element
    /\ current_page_data = <<>>
    /\ all_data # <<>>

\* C13: every call of scrape_course_evaluation that has returned gave the
\* caller the summary, never the null value.
C13_AlwaysSummary ==
    (pc = "idle" /\ run > 0) => result = "combined_data"

\* C15: _navigate_to_next_page is about to be called only in an iteration in
\* which current_page < total_pages and the reading made just before it
\* reported an enabled next button.
C15_NavigateOnlyWithoutStopSignal ==
    pc = "navigate" => (~(current_page >= total_pages) /\ pre_nav_has_next)

\* C15 witness: the reading before navigation reported no enabled next
\* button while current_page < total_pages, and the loop ended there.
C15_Witness ==
    /\ pc = "loop_exit"
    /\ end_reason = "no_next_button"
    /\ ~pre_nav_has_next
    /\ current_page < total_pages

\* C16: a page is extracted under the page number that follows the page
\* number of the page extracted before it.
C16_PagesInOrder ==
    [][(/\ pc \in {"first_page", "extract"}
        /\ pc' = "commit"
        /\ extracted_page # 0)
       => current_page = extracted_page + 1]_vars

\* C14: a call of scrape_all_courses in a step of which an exception was
\* raised still gives its caller a ScrapingResult, and that result carries
\* an error.
C14_ResultCarriesError ==
    (tt_pc = "done" /\ tt_raised) => (tt_result = "ScrapingResult" /\ errors # <<>>)

\* C17: the session on the single-page dataset of a header row and k records
\* returns with k records committed and 1 page counted.
C17_SinglePageSession ==
    (drv_mode = "single" /\ pc = "idle" /\ result = "combined_data")
        => (Len(evaluation_data) = single_rows /\ pi_total_pages = 1)

\* C18 as stated: no table before the selected one has more than 5 rows and
\* a content marker (no inspection having raised).
C18_FirstOfTwoThresholds ==
    (selected_table # 0 /\ raised_tables = {})
        => \A j \in 1..(selected_table - 1) :
               ~(HasSubstantialRows(tables[j]) /\ TableHasMarker(tables[j]))

\* C18 amended: the selected table is the first, in document order, that has
\* more than 5 rows, a content marker and more than 3 column names and whose
\* inspection did not raise; no table is selected only if there is none; and
\* the rows returned are those of the selected table.
C18_FirstOfThreeThresholds ==
    LET passes(j) == /\ Len(tables[j]) > 5
                     /\ TableHasMarker(tables[j])
                     /\ Len(ExtractTableHeaders(tables[j])) > 3
        chosen == tables[selected_table]
    IN  /\ selected_table # 0
              => /\ passes(selected_table) \/ selected_table \in raised_tables
                 /\ \A j \in 1..(selected_table - 1) : ~passes(j) \/ j \in raised_tables
        /\ (ex_pc = "done" /\ selected_table = 0)
              => \A j \in 1..Len(tables) : ~passes(j) \/ j \in raised_tables
        /\ (ex_pc = "done" /\ selected_table # 0 /\ selected_table \notin raised_tables)
              => table_data = ProcessRows(chosen, FindHeaderRowIndex(chosen) + 2,
                                          ExtractTableHeaders(chosen), <<>>)

\* C18 witness: the second table was selected although the first has more
\* than 5 rows and a content marker, and its records were returned.
C18_Witness ==
    /\ ex_pc = "done"
    /\ selected_table = 2
    /\ raised_tables = {}
    /\ HasSubstantialRows(tables[1])
    /\ TableHasMarker(tables[1])
    /\ table_data # <<>>

\* C19: when one of the first 3 rows has th cells of which one has text, the
\* headers returned by _extract_table_headers are the names of the first such
\* row's th cells (Column_N for a cell without text), no element of the table
\* having raised.
C19_ExplicitHeaderReturned ==
    LET rows == tables[table_index]
        marked == {r \in 1..Min(3, Len(rows)) :
                      \E j \in 1..Len(rows[r].th) : rows[r].th[j] # ""}
    IN  (ex_pc = "check_headers" /\ marked # {} /\ table_index \notin raised_tables)
            => headers = ThNames(rows[SetMin(marked)].th)

\* C20: every row of the selected table that has been bound to the headers
\* has no more cells than there are headers.
C20_CellsWithinHeaders ==
    (ex_pc \in {"rows", "done"} /\ selected_table # 0)
        => \A i \in (header_row_index + 2)..(row_index - 1) :
               Len(tables[selected_table][i].td) <= Len(headers)

\* C20 witness: records were returned from a table one of whose rows has more
\* cells than the headers first extracted.
C20_Witness ==
    /\ ex_pc = "done"
    /\ table_data # <<>>
    /\ raised_tables = {}
    /\ Len(headers) > Len(ExtractTableHeaders(tables[selected_table]))

\* C21: _extract_table_headers never returns an empty list of column names:
\* the headers with which a table of the page is judged are never empty.
C21_HeadersNeverEmpty == ex_pc = "check_headers" => headers # <<>>

\* C22: a page that holds the rows of a page already committed in this run,
\* in whatever order, has that page's fingerprint: it is met as a repeat, the
\* loop is left and nothing is committed (unless the process dies there).
C22_PermutedPageIsRepeat ==
    [][(/\ pc = "commit"
        /\ current_page_data # <<>>
        /\ \E page \in seen_pages : IsPermutation(page, current_page_data)
        /\ pc' # "crashed")
       => (/\ pc' = "loop_exit"
           /\ end_reason' = "duplicate"
           /\ UNCHANGED <<seen_pages, all_data, evaluation_data>>)]_vars

\* C22 witness: the loop was left on a page that was not served in this
\* order before but holds the rows of a committed page.
C22_Witness ==
    /\ pc = "loop_exit"
    /\ end_reason = "duplicate"
    /\ current_page_data \notin seen_pages
    /\ \E page \in seen_pages : IsPermutation(page, current_page_data)

\* C23: a row of 5 or more cells that are all words of the header keywords
\* is rejected by _is_valid_course_data_row, whatever the headers.
C23_KeywordRowRejected ==
    (/\ rv_pc = "done"
     /\ Len(row_cells) >= 5
     /\ \A j \in 1..Len(row_cells) : HasHeaderKeyword(row_cells[j]))
        => ~row_accepted

C28_OneEntryPerColumn ==
    (rv_pc = "done" /\ row_accepted)
        => /\ Len(row_record) = Len(row_headers)
           /\ \A i \in 1..Len(row_record) :
                  row_record[i] = <<row_headers[i],
                                    IF i <= Len(row_cells) THEN row_cells[i] ELSE "">>

\* C25: one call of scrape_all_courses extracts at most max_pages pages and
\* calls check_for_next_page at most max_pages times, and the page loop, once
\* entered, is left and the call returns.
C25_PageLoopBounded ==
    /\ [](page_count <= max_pages /\ next_page_calls <= max_pages)
    /\ ((tt_pc = "page_loop") ~> (tt_pc = "done"))

\* C25 witness: the call returned after max_pages pages, each followed by a
\* next page.
C25_Witness ==
    /\ tt_pc = "done"
    /\ tt_result = "ScrapingResult"
    /\ page_count = max_pages
    /\ next_page_calls = max_pages

\* C26: no course code is twice in the session's list of courses, nor twice
\* in the rows written to the incremental CSV.
C26_NoCourseTwice ==
    /\ \A i, j \in 1..Len(all_courses) : i # j => all_courses[i] # all_courses[j]
    /\ \A i, j \in 1..Len(csv_rows) : i # j => csv_rows[i] # csv_rows[j]

\* C27: every row of the selected table, other than the row the headers were
\* taken from, that has cells and is accepted by _is_valid_course_data_row
\* gave a record: there are as many records as such rows (no element having
\* raised).
C27_NoValidRowSkipped ==
    (ex_pc = "done" /\ selected_table # 0 /\ raised_tables = {})
        => LET rows == tables[selected_table]
               hdrs == ExtractTableHeaders(rows)
               valid(i) ==
                   /\ rows[i].td # <<>>
                   /\ IsValidCourseDataRow(
                          BindRow(rows[i].td, PadHeaders(hdrs, Len(rows[i].td))))
           IN  Len(table_data)
                   >= Cardinality({i \in 1..Len(rows) :
                                      i # HeaderSourceRow(rows) /\ valid(i)})

\* C29: extract_from_table returns one CourseDetail for every row other than
\* the first that is not marked as a header, has at least 3 td cells and a
\* first cell whose stripped text is not empty, with that stripped text as
\* its course code.
C29_OneCoursePerRow ==
    tb_pc = "done"
        => LET qualifying ==
                   {i \in 2..Len(course_rows) :
                       /\ ~IsHeaderClass(course_rows[i].class)
                       /\ Len(course_rows[i].td) >= 3
                       /\ Strip(course_rows[i].td[1]) # ""}
           IN  /\ Len(tb_courses) = Cardinality(qualifying)
               /\ \A i \in qualifying :
                      \E k \in 1..Len(tb_courses) :
                          tb_courses[k].course_code = Strip(course_rows[i].td[1])

\* C30: whenever save_incremental_data has updated the accumulator,
\* page_info.total_records is the number of records in evaluation_data and
\* page_info.total_pages is the largest page number records were committed
\* for; total_pages never decreases while the process lives.
C30_PageInfoTotals ==
    /\ [](/\ pi_total_records = Len(evaluation_data)
          /\ pi_total_pages \in committed_pages \cup {0}
          /\ \A page \in committed_pages : page <= pi_total_pages)
    /\ [][pc' # "crashed" => pi_total_pages' >= pi_total_pages]_vars

C30_Witness ==
    /\ pc = "save_json_open"
    /\ Cardinality(committed_pages) >= 2
    /\ current_page < pi_total_pages
    /\ pi_total_records = Len(evaluation_data)

====
